---------------------------- MODULE Spec2Model ----------------------------
(***************************************************************************)
(* FreeWill SSO example: the Express API (src/api/index.js) and the React  *)
(* client (src/web/src/App.tsx).                                           *)
(*                                                                         *)
(* Three parts share one variable tuple; each specification moves one part *)
(* and leaves the others where Init put them:                              *)
(*   ApiSpec     the middleware chain of the API, one request at a time    *)
(*   Spec        the Home component, callPublicApi / callProtectedApi      *)
(*               invoked as functions                                      *)
(*   FairSpec    Spec, with every pending promise eventually settling      *)
(*   UISpec      the Home component driven through its rendered buttons    *)
(*   DecodeSpec  decodeJWT applied to bounded token strings                *)
(***************************************************************************)
EXTENDS Integers, Sequences, FiniteSets, TLC

VARIABLES
    \* ---- API process (src/api/index.js)
    req,            \* the request being handled
    stage,          \* its position in the middleware chain
    err,            \* err.name passed to next(err), "none" when no failure
    reqAuth,        \* req.auth?.payload
    verdict,        \* what checkJwt did for this request
    res,            \* the response sent for this request
    sentCount,      \* number of responses sent for this request
    served,         \* requests completed since app.listen
    \* ---- Home component (src/web/src/App.tsx)
    isAuthenticated,
    silent,         \* the getAccessTokenSilently() promise of the effect
    accessToken,
    decodedToken,
    apiResponse,
    apiError,
    isLoading,
    pending,        \* axios.get promises not yet settled, per call
    loginStarted,   \* loginWithRedirect() was called
    unhandled,      \* a promise rejected with no rejection handler
    driver,         \* how the two call operations are invoked in this run
    \* ---- decodeJWT as a pure function
    input,
    output

apiVars == <<req, stage, err, reqAuth, verdict, res, sentCount, served>>
webVars == <<isAuthenticated, silent, accessToken, decodedToken, apiResponse,
             apiError, isLoading, pending, loginStarted, unhandled, driver>>
decVars == <<input, output>>
vars == <<apiVars, webVars, decVars>>

\* ------------------------------------------------------------------ bounds
MaxRequests == 2
MaxPending == 2
MaxTokenLen == 5

(***************************************************************************)
(*                        API  (src/api/index.js)                          *)
(***************************************************************************)

Routes == {"/", "/protected"}

\* What the Authorization header of a request carries.  "tokA" and "tokB" are
\* bearer tokens the identity provider issued for this audience; "badsig" is
\* signed by an untrusted key or has a wrong aud/iss; "expired" has exp in the
\* past; "malformed" is a header that is not "Bearer <token>".
AuthHeaders == {"absent", "malformed", "tokA", "tokB", "badsig", "expired"}

\* The request body as express.json() sees it.
Bodies == {"nobody", "json", "badjson"}

Requests == [route : Routes, auth : AuthHeaders, body : Bodies]

NoRequest == [route |-> "none", auth |-> "absent", body |-> "nobody"]

\* The claim set of an issued token.
ClaimsOf(tok) == IF tok = "tokA" THEN "claimsA"
                 ELSE IF tok = "tokB" THEN "claimsB"
                 ELSE "undefined"

NoResponse == [status |-> 0, error |-> "", message |-> "", details |-> "",
               bodyStatus |-> "", user |-> "undefined"]

\* err.message of each failure
ErrMessage(name) == IF name = "none" THEN "" ELSE "details of " \o name

\* The outcomes of checkJwt for a request: the set of <<verdict, err.name,
\* payload>> the verifier may produce.  The verifier is the middleware built
\* by auth() of express-oauth2-jwt-bearer; its signals are the error classes
\* of that package, and the handler below also names TokenExpiredError.  For
\* an expired token the source does not fix which of the two is raised.
\* Key resolution goes over the network and may fail for any token.
ExpiredSignals == {"TokenExpiredError", "InvalidTokenError"}

CheckJwtOutcomes(r) ==
    CASE r.auth \in {"absent", "malformed"} ->
            {<<"rejected", "UnauthorizedError", "undefined">>}
      [] r.auth \in {"tokA", "tokB"} ->
            {<<"accepted", "none", ClaimsOf(r.auth)>>,
             <<"rejected", "Error", "undefined">>}
      [] r.auth = "badsig" ->
            {<<"rejected", "InvalidTokenError", "undefined">>,
             <<"rejected", "Error", "undefined">>}
      [] r.auth = "expired" ->
            {<<"rejected", n, "undefined">> : n \in ExpiredSignals}
            \cup {<<"rejected", "Error", "undefined">>}

\* Variant of ErrorResponse without the TokenExpiredError branch.
ErrorResponse_NoExpiredBranch(name) ==
    CASE name = "UnauthorizedError" ->
            [NoResponse EXCEPT !.status = 401, !.error = "Unauthorized",
                 !.message = "Invalid or missing token",
                 !.details = ErrMessage(name)]
      [] name = "InvalidTokenError" ->
            [NoResponse EXCEPT !.status = 401, !.error = "Invalid Token",
                 !.message = "The provided token is invalid",
                 !.details = ErrMessage(name)]
      [] OTHER ->
            [NoResponse EXCEPT !.status = 500,
                 !.error = "Internal Server Error",
                 !.message = "Something went wrong",
                 !.details = ErrMessage(name)]

\* The error-handling middleware as a function of err.name.
ErrorResponse(name) ==
    CASE name = "UnauthorizedError" ->
            [NoResponse EXCEPT !.status = 401, !.error = "Unauthorized",
                 !.message = "Invalid or missing token",
                 !.details = ErrMessage(name)]
      [] name = "InvalidTokenError" ->
            [NoResponse EXCEPT !.status = 401, !.error = "Invalid Token",
                 !.message = "The provided token is invalid",
                 !.details = ErrMessage(name)]
      [] name = "TokenExpiredError" ->
            [NoResponse EXCEPT !.status = 401, !.error = "Token Expired",
                 !.message = "The provided token has expired",
                 !.details = ErrMessage(name)]
      [] OTHER ->
            [NoResponse EXCEPT !.status = 500,
                 !.error = "Internal Server Error",
                 !.message = "Something went wrong",
                 !.details = ErrMessage(name)]

PublicBody == [NoResponse EXCEPT !.status = 200, !.bodyStatus = "public",
                   !.message = "Welcome to FreeWill SSO API"]

ProtectedBody(payload) ==
    [NoResponse EXCEPT !.status = 200, !.bodyStatus = "authenticated",
         !.message = "This is a protected route!", !.user = payload]

ApiInit ==
    /\ req = NoRequest
    /\ stage = "idle"
    /\ err = "none"
    /\ reqAuth = "undefined"
    /\ verdict = "notrun"
    /\ res = NoResponse
    /\ sentCount = 0
    /\ served = 0

\* A GET request arrives; the chain starts at the first app.use.
Receive ==
    /\ stage = "idle"
    /\ served < MaxRequests
    /\ \E r \in Requests : req' = r
    /\ stage' = "cors"
    /\ err' = "none"
    /\ reqAuth' = "undefined"
    /\ verdict' = "notrun"
    /\ res' = NoResponse
    /\ sentCount' = 0
    /\ UNCHANGED served
    /\ UNCHANGED <<webVars, decVars>>

\* app.use(cors()): for a GET, sets the allow-origin header and calls next().
Cors ==
    /\ stage = "cors"
    /\ stage' = "json"
    /\ UNCHANGED <<req, err, reqAuth, verdict, res, sentCount, served>>
    /\ UNCHANGED <<webVars, decVars>>

\* app.use(express.json()): a body that does not parse is next(err).
JsonBody ==
    /\ stage = "json"
    /\ IF req.body = "badjson"
         THEN /\ err' = "SyntaxError"
              /\ stage' = "error"
         ELSE /\ err' = err
              /\ stage' = "route"
    /\ UNCHANGED <<req, reqAuth, verdict, res, sentCount, served>>
    /\ UNCHANGED <<webVars, decVars>>

\* Variant of PublicRoute with checkJwt in front of the handler.
PublicRoute_Checked ==
    /\ stage = "route"
    /\ req.route = "/"
    /\ \E o \in CheckJwtOutcomes(req) :
          /\ verdict' = o[1]
          /\ err' = o[2]
          /\ IF o[1] = "accepted"
               THEN /\ res' = PublicBody
                    /\ sentCount' = sentCount + 1
                    /\ stage' = "sent"
               ELSE /\ stage' = "error"
                    /\ UNCHANGED <<res, sentCount>>
    /\ UNCHANGED <<req, reqAuth, served>>
    /\ UNCHANGED <<webVars, decVars>>

\* app.get('/', ...)
PublicRoute ==
    /\ stage = "route"
    /\ req.route = "/"
    /\ res' = PublicBody
    /\ sentCount' = sentCount + 1
    /\ stage' = "sent"
    /\ UNCHANGED <<req, err, reqAuth, verdict, served>>
    /\ UNCHANGED <<webVars, decVars>>

\* Variant of CheckJwt: the route registered without the verifier.
CheckJwt_Skipped ==
    /\ stage = "route"
    /\ req.route = "/protected"
    /\ stage' = "handler"
    /\ UNCHANGED <<req, err, reqAuth, verdict, res, sentCount, served>>
    /\ UNCHANGED <<webVars, decVars>>

\* app.get('/protected', checkJwt, ...): the first handler of the route.
CheckJwt ==
    /\ stage = "route"
    /\ req.route = "/protected"
    /\ \E o \in CheckJwtOutcomes(req) :
          /\ verdict' = o[1]
          /\ err' = o[2]
          /\ reqAuth' = o[3]
          /\ stage' = IF o[1] = "accepted" THEN "handler" ELSE "error"
    /\ UNCHANGED <<req, res, sentCount, served>>
    /\ UNCHANGED <<webVars, decVars>>

\* app.get('/protected', checkJwt, (req, res) => ...): the second handler.
ProtectedRoute ==
    /\ stage = "handler"
    /\ res' = ProtectedBody(reqAuth)
    /\ sentCount' = sentCount + 1
    /\ stage' = "sent"
    /\ UNCHANGED <<req, err, reqAuth, verdict, served>>
    /\ UNCHANGED <<webVars, decVars>>

\* app.use((err, req, res, next) => ...)
ErrorHandler ==
    /\ stage = "error"
    /\ res' = ErrorResponse(err)
    /\ sentCount' = sentCount + 1
    /\ stage' = "sent"
    /\ UNCHANGED <<req, err, reqAuth, verdict, served>>
    /\ UNCHANGED <<webVars, decVars>>

\* The response is flushed; the server waits for the next request.
Finish ==
    /\ stage = "sent"
    /\ stage' = "idle"
    /\ served' = served + 1
    /\ UNCHANGED <<req, err, reqAuth, verdict, res, sentCount>>
    /\ UNCHANGED <<webVars, decVars>>

ApiNext ==
    \/ Receive
    \/ Cors
    \/ JsonBody
    \/ PublicRoute
    \/ CheckJwt
    \/ ProtectedRoute
    \/ ErrorHandler
    \/ Finish


(***************************************************************************)
(*               decodeJWT  (src/web/src/App.tsx, lines 33-60)             *)
(*                                                                         *)
(* A token string is a sequence of atoms: the separator "." and pieces of  *)
(* segment text.  "eyB9", "WzFd" and "YWJj" are the base64url encodings of *)
(* the three-byte texts "{ }", "[1]" and "abc"; "!" is a character outside *)
(* the base64 alphabet.  Each encoded atom is four characters, so a run of *)
(* them decodes atom by atom.                                              *)
(***************************************************************************)

Dot == "."
Atoms == {Dot, "eyB9", "WzFd", "YWJj", "!"}

TokensOfLen(n) == [1..n -> Atoms]
Tokens == UNION {TokensOfLen(n) : n \in 0..MaxTokenLen}

CharLen(a) == IF a \in {Dot, "!"} THEN 1 ELSE 4

DecodeAtom(a) == CASE a = "eyB9" -> "{ }"
                   [] a = "WzFd" -> "[1]"
                   [] a = "YWJj" -> "abc"
                   [] OTHER -> "?"

RECURSIVE SumLen(_)
SumLen(seg) == IF seg = <<>> THEN 0 ELSE CharLen(Head(seg)) + SumLen(Tail(seg))

\* String.prototype.split("."): one more part than there are separators.
RECURSIVE Split(_)
Split(s) ==
    IF s = <<>> THEN << <<>> >>
    ELSE LET rest == Split(Tail(s))
         IN  IF Head(s) = Dot
               THEN << <<>> >> \o rest
               ELSE << <<Head(s)>> \o rest[1] >> \o Tail(rest)

Ok(v) == [ok |-> TRUE, value |-> v]
Fail == [ok |-> FALSE, value |-> <<>>]

\* atob after the "-"/"_" replacement: throws on a character outside the
\* alphabet and on a length of 1 modulo 4; padding is not required.
Atob(seg) ==
    IF (\E i \in 1..Len(seg) : seg[i] = "!") \/ SumLen(seg) % 4 = 1
      THEN Fail
      ELSE Ok([i \in 1..Len(seg) |-> DecodeAtom(seg[i])])

\* JSON.parse of a decoded text: "{ }" and "[1]" are the JSON texts over
\* these atoms; the empty text and every other concatenation throw.
JsonParse(text) ==
    CASE text = <<"{ }">> -> Ok(<<"object">>)
      [] text = <<"[1]">> -> Ok(<<"array", "1">>)
      [] OTHER -> Fail

\* jwtDecode(token) of jwt-decode: the second part, base64url-decoded and
\* parsed; throws InvalidTokenError when any step fails.
jwtDecode(token) ==
    LET parts == Split(token)
    IN  IF Len(parts) < 2 THEN Fail
        ELSE LET text == Atob(parts[2])
             IN  IF ~text.ok THEN Fail ELSE JsonParse(text.value)

Thrown == [kind |-> "throw", isNull |-> FALSE, header |-> <<>>,
           payload |-> <<>>, signature |-> <<>>]
ReturnNull == [kind |-> "return", isNull |-> TRUE, header |-> <<>>,
               payload |-> <<>>, signature |-> <<>>]
Return(h, p, s) == [kind |-> "return", isNull |-> FALSE, header |-> h,
                    payload |-> p, signature |-> s]

\* Variant of decodeJWT_try without the parts.length check.
decodeJWT_try_NoLengthCheck(token) ==
    LET payload == jwtDecode(token)
        parts == Split(token)
    IN  IF ~payload.ok THEN Thrown
        ELSE LET text == Atob(parts[1])
                 header == IF text.ok THEN JsonParse(text.value) ELSE Fail
             IN  IF ~header.ok THEN Thrown
                 ELSE Return(header.value, payload.value,
                             IF Len(parts) >= 3 THEN parts[3] ELSE <<>>)

\* The try block of decodeJWT: what it returns, or that it threw.
decodeJWT_try(token) ==
    LET payload == jwtDecode(token)
        parts == Split(token)
    IN  IF ~payload.ok THEN Thrown
        ELSE IF Len(parts) # 3 THEN Thrown
        ELSE LET text == Atob(parts[1])
                 header == IF text.ok THEN JsonParse(text.value) ELSE Fail
             IN  IF ~header.ok THEN Thrown
                 ELSE Return(header.value, payload.value, parts[3])

\* decodeJWT: the catch block turns every throw into return null.
decodeJWT(token) ==
    LET r == decodeJWT_try(token)
    IN  IF r.kind = "throw" THEN ReturnNull ELSE r

NotRun == [kind |-> "notrun", isNull |-> FALSE, header |-> <<>>,
           payload |-> <<>>, signature |-> <<>>]

DecInit ==
    /\ input \in Tokens
    /\ output = NotRun

\* decodeJWT(input) is called.
Decode ==
    /\ output = NotRun
    /\ output' = decodeJWT(input)
    /\ UNCHANGED input
    /\ UNCHANGED <<apiVars, webVars>>

DecNext == Decode


(***************************************************************************)
(*                 Home component  (src/web/src/App.tsx)                   *)
(***************************************************************************)

Calls == {"public", "protected"}

NullToken == <<"null">>
NullDecoded == ReturnNull
NullResponse == [data |-> "null", status |-> 0, statusText |-> ""]
NullError == "null"

\* Access tokens getAccessTokenSilently() may resolve with: a three-segment
\* JWT, and an opaque (non-JWT) token.
IssuedTokens == { <<"eyB9", Dot, "WzFd", Dot, "YWJj">>, <<"YWJj">> }

\* A rejected axios promise, or an exception thrown in the try block:
\* error.response?.data?.message and error.message ("" when absent).
HttpError(name) ==
    [responseMessage |-> ErrorResponse(name).message,
     message |-> "Request failed with status code"]
TransportError == [responseMessage |-> "", message |-> "Network Error"]
BareError == [responseMessage |-> "", message |-> ""]
StoreError == [responseMessage |-> "", message |-> "store failed"]

\* The ways the awaited GET of a call can end.
Outcomes(c) ==
    {[kind |-> "ok", error |-> BareError],
     [kind |-> "storethrows", error |-> StoreError],
     [kind |-> "rejected", error |-> TransportError],
     [kind |-> "rejected", error |-> BareError],
     [kind |-> "rejected", error |-> HttpError("Error")]}
    \cup (IF c = "protected"
            THEN {[kind |-> "rejected", error |-> HttpError(n)] :
                     n \in {"UnauthorizedError", "InvalidTokenError"}}
            ELSE {})

\* error.response?.data?.message || error.message || "Unknown error occurred"
ErrorText(error) ==
    IF error.responseMessage # "" THEN error.responseMessage
    ELSE IF error.message # "" THEN error.message
    ELSE "Unknown error occurred"

\* The envelope stored on success; data is the body's status field.
Envelope(c) ==
    [data |-> IF c = "public" THEN PublicBody.bodyStatus
              ELSE ProtectedBody("claims").bodyStatus,
     status |-> 200, statusText |-> "OK"]

\* "buttons": the operations run as the onClick handlers of the rendered
\* buttons, which React does not fire while a button is disabled.
\* "functions": callPublic() / callProtected() are called directly.
Drivers == {"buttons", "functions"}

NoneInFlight == \A c \in Calls : pending[c] = 0

\* useState initial values; useAuth0() before any login.
WebInit ==
    /\ isAuthenticated = FALSE
    /\ silent = "none"
    /\ accessToken = NullToken
    /\ decodedToken = NullDecoded
    /\ apiResponse = NullResponse
    /\ apiError = NullError
    /\ isLoading = FALSE
    /\ pending = [c \in Calls |-> 0]
    /\ loginStarted = FALSE
    /\ unhandled = FALSE
    /\ driver \in Drivers

\* onClick of the login button: loginWithRedirect().
LoginClick ==
    /\ ~isAuthenticated
    /\ ~loginStarted
    /\ loginStarted' = TRUE
    /\ UNCHANGED <<isAuthenticated, silent, accessToken, decodedToken,
                   apiResponse, apiError, isLoading, pending, unhandled>>
    /\ UNCHANGED driver

\* The identity provider redirects back: the page loads anew, authenticated.
LoginReturn ==
    /\ loginStarted
    /\ isAuthenticated' = TRUE
    /\ loginStarted' = FALSE
    /\ silent' = "none"
    /\ accessToken' = NullToken
    /\ decodedToken' = NullDecoded
    /\ apiResponse' = NullResponse
    /\ apiError' = NullError
    /\ isLoading' = FALSE
    /\ pending' = [c \in Calls |-> 0]
    /\ unhandled' = FALSE
    /\ UNCHANGED driver

\* onClick of the logout button: logout() leaves the page; the session ends.
Logout ==
    /\ isAuthenticated
    /\ isAuthenticated' = FALSE
    /\ loginStarted' = FALSE
    /\ silent' = "none"
    /\ accessToken' = NullToken
    /\ decodedToken' = NullDecoded
    /\ apiResponse' = NullResponse
    /\ apiError' = NullError
    /\ isLoading' = FALSE
    /\ pending' = [c \in Calls |-> 0]
    /\ unhandled' = FALSE
    /\ UNCHANGED driver

\* useEffect: if (isAuthenticated) getAccessTokenSilently().then(...)
Effect ==
    /\ isAuthenticated
    /\ silent = "none"
    /\ silent' = "pending"
    /\ UNCHANGED <<isAuthenticated, accessToken, decodedToken, apiResponse,
                   apiError, isLoading, pending, loginStarted, unhandled>>
    /\ UNCHANGED driver

\* The .then callback: setAccessToken(token); setDecodedToken(decodeJWT(token))
SilentResolve ==
    /\ silent = "pending"
    /\ \E t \in IssuedTokens :
          /\ accessToken' = t
          /\ decodedToken' = decodeJWT(t)
    /\ silent' = "resolved"
    /\ UNCHANGED <<isAuthenticated, apiResponse, apiError, isLoading, pending,
                   loginStarted, unhandled>>
    /\ UNCHANGED driver

\* The promise rejects (login_required, consent_required, network): the
\* chain has a .then and no .catch, so nothing runs.
SilentReject ==
    /\ silent = "pending"
    /\ silent' = "rejected"
    /\ unhandled' = TRUE
    /\ UNCHANGED <<isAuthenticated, accessToken, decodedToken, apiResponse,
                   apiError, isLoading, pending, loginStarted>>
    /\ UNCHANGED driver


\* disabled={isLoading} of the public button.
PublicDisabled == isLoading

\* Variant of ProtectedDisabled: disabled={isLoading}.
ProtectedDisabled_LoadingOnly == isLoading

\* disabled={isLoading || !accessToken} of the protected button.
ProtectedDisabled == isLoading \/ accessToken = NullToken

\* Whether this run can invoke the operation now.
CanInvoke(disabled) ==
    driver = "buttons" => (isAuthenticated /\ ~disabled)

\* callPublicApi up to its await: the GET is issued.
callPublicApi ==
    /\ CanInvoke(PublicDisabled)
    /\ pending["public"] < MaxPending
    /\ isLoading' = TRUE
    /\ apiError' = NullError
    /\ apiResponse' = NullResponse
    /\ pending' = [pending EXCEPT !["public"] = @ + 1]
    /\ UNCHANGED <<isAuthenticated, silent, accessToken, decodedToken,
                   loginStarted, unhandled, driver>>

\* Variant of callProtectedApi without the !accessToken return.
callProtectedApi_NoTokenCheck ==
    /\ CanInvoke(ProtectedDisabled)
    /\ pending["protected"] < MaxPending
    /\ isLoading' = TRUE
    /\ apiError' = NullError
    /\ apiResponse' = NullResponse
    /\ pending' = [pending EXCEPT !["protected"] = @ + 1]
    /\ UNCHANGED <<isAuthenticated, silent, accessToken, decodedToken,
                   loginStarted, unhandled, driver>>

\* callProtectedApi up to its await, or to its early return.
callProtectedApi ==
    /\ CanInvoke(ProtectedDisabled)
    /\ IF accessToken = NullToken
         THEN /\ apiError' = "No access token available"
              /\ UNCHANGED <<isLoading, apiResponse, pending>>
         ELSE /\ pending["protected"] < MaxPending
              /\ isLoading' = TRUE
              /\ apiError' = NullError
              /\ apiResponse' = NullResponse
              /\ pending' = [pending EXCEPT !["protected"] = @ + 1]
    /\ UNCHANGED <<isAuthenticated, silent, accessToken, decodedToken,
                   loginStarted, unhandled, driver>>

\* Variant of Resume: setIsLoading(false) at the end of the try block
\* instead of in a finally block.
Resume_NoFinally(c) ==
    /\ pending[c] > 0
    /\ \E o \in Outcomes(c) :
          IF o.kind = "ok"
            THEN /\ apiResponse' = Envelope(c)
                 /\ apiError' = apiError
                 /\ isLoading' = FALSE
            ELSE /\ apiError' = ErrorText(o.error)
                 /\ apiResponse' = apiResponse
                 /\ isLoading' = isLoading
    /\ pending' = [pending EXCEPT ![c] = @ - 1]
    /\ UNCHANGED <<isAuthenticated, silent, accessToken, decodedToken,
                   loginStarted, unhandled, driver>>

\* The rest of a call once its GET settles: the try block after the await,
\* the catch block, the finally block.
Resume(c) ==
    /\ pending[c] > 0
    /\ \E o \in Outcomes(c) :
          IF o.kind = "ok"
            THEN /\ apiResponse' = Envelope(c)
                 /\ apiError' = apiError
            ELSE /\ apiError' = ErrorText(o.error)
                 /\ apiResponse' = apiResponse
    /\ isLoading' = FALSE
    /\ pending' = [pending EXCEPT ![c] = @ - 1]
    /\ UNCHANGED <<isAuthenticated, silent, accessToken, decodedToken,
                   loginStarted, unhandled, driver>>

ResumePublic == Resume("public") /\ UNCHANGED <<apiVars, decVars>>
ResumeProtected == Resume("protected") /\ UNCHANGED <<apiVars, decVars>>

WebNext ==
    \/ LoginClick /\ UNCHANGED <<apiVars, decVars>>
    \/ LoginReturn /\ UNCHANGED <<apiVars, decVars>>
    \/ Logout /\ UNCHANGED <<apiVars, decVars>>
    \/ Effect /\ UNCHANGED <<apiVars, decVars>>
    \/ SilentResolve /\ UNCHANGED <<apiVars, decVars>>
    \/ SilentReject /\ UNCHANGED <<apiVars, decVars>>
    \/ callPublicApi /\ UNCHANGED <<apiVars, decVars>>
    \/ callProtectedApi /\ UNCHANGED <<apiVars, decVars>>
    \/ ResumePublic
    \/ ResumeProtected

(***************************************************************************)
(*                            Specifications                               *)
(***************************************************************************)

\* The parts a specification does not move.
ApiAtRest == ApiInit
WebAtRest == WebInit /\ driver = "functions"
DecAtRest == input = <<>> /\ output = NotRun

ApiSpecInit == ApiInit /\ WebAtRest /\ DecAtRest
ApiSpec == ApiSpecInit /\ [][ApiNext]_vars

Init == WebInit /\ ApiAtRest /\ DecAtRest
Spec == Init /\ [][WebNext]_vars

\* A pending promise settles and its continuation runs; an effect of a
\* committed render runs.  Nothing obliges the user to click.
FairSpec ==
    /\ Spec
    /\ WF_vars(ResumePublic)
    /\ WF_vars(ResumeProtected)
    /\ WF_vars(Effect /\ UNCHANGED <<apiVars, decVars>>)
    /\ WF_vars((SilentResolve \/ SilentReject) /\ UNCHANGED <<apiVars, decVars>>)

DecodeSpecInit == DecInit /\ ApiAtRest /\ WebAtRest
DecodeSpec == DecodeSpecInit /\ [][DecNext]_vars


(***************************************************************************)
(*                               Properties                                *)
(***************************************************************************)

\* ---------------------------------------------------------------- ApiSpec

\* C1: a 200 "authenticated" response is sent only for a request whose
\* bearer token checkJwt accepted, its user field is the claim set checkJwt
\* returned for that request, and the /protected handler is reached only
\* after checkJwt accepted.
C1_VerifiedOnly ==
    /\ stage = "handler" => verdict = "accepted"
    /\ (res.status = 200 /\ res.bodyStatus = "authenticated") =>
          /\ verdict = "accepted"
          /\ req.route = "/protected"
          /\ req.auth \in {"tokA", "tokB"}
          /\ res.user = ClaimsOf(req.auth)

C1_Witness ==
    /\ stage = "sent"
    /\ req.auth = "tokB"
    /\ res.bodyStatus = "authenticated"
    /\ res.user = "claimsB"

\* C2: once a failure has been answered, exactly one response was sent; it
\* is 401 "Unauthorized" for UnauthorizedError, 401 "Invalid Token" for
\* InvalidTokenError, 401 "Token Expired" for TokenExpiredError and 500
\* "Internal Server Error" for every other failure; its body carries a
\* message and, as details, the failure's own description; and a failure
\* goes to the error handler and to no route handler, after which the server
\* is idle again.
C2_ErrorMapping ==
    /\ err # "none" => stage \in {"error", "sent", "idle"}
    /\ sentCount <= 1
    /\ stage = "sent" => sentCount = 1
    /\ (stage = "sent" /\ err # "none") =>
          /\ res.message # ""
          /\ res.details = ErrMessage(err)
          /\ err = "UnauthorizedError" =>
                (res.status = 401 /\ res.error = "Unauthorized")
          /\ err = "InvalidTokenError" =>
                (res.status = 401 /\ res.error = "Invalid Token")
          /\ err = "TokenExpiredError" =>
                (res.status = 401 /\ res.error = "Token Expired")
          /\ err \notin {"UnauthorizedError", "InvalidTokenError",
                         "TokenExpiredError"} =>
                (res.status = 500 /\ res.error = "Internal Server Error")

\* A second request, answered as an expired token, after a first was served.
C2_Witness ==
    /\ served = 1
    /\ stage = "sent"
    /\ err = "TokenExpiredError"
    /\ res.error = "Token Expired"

\* C3: GET /protected with an expired token is answered 401 "Token Expired",
\* whichever signal the verifier raises for the expiry.
C3_ExpiredIsTokenExpired ==
    (/\ stage = "sent"
     /\ req.route = "/protected"
     /\ req.auth = "expired"
     /\ err \in ExpiredSignals) =>
        (res.status = 401 /\ res.error = "Token Expired")

\* C4 as stated: GET / is answered 200 "public" for every request, and the
\* verifier is not consulted.
C4_AlwaysPublic ==
    (stage = "sent" /\ req.route = "/") =>
        /\ res.status = 200
        /\ res.bodyStatus = "public"
        /\ verdict = "notrun"

\* C4 amended: GET / never consults the verifier, and is answered 200
\* "public" whatever its Authorization header, unless its body fails JSON
\* parsing, in which case it is answered 500 "Internal Server Error".
C4_PublicUnlessBodyFails ==
    (stage = "sent" /\ req.route = "/") =>
        /\ verdict = "notrun"
        /\ IF req.body = "badjson"
             THEN res.status = 500 /\ res.error = "Internal Server Error"
             ELSE res.status = 200 /\ res.bodyStatus = "public"

C4_Witness ==
    /\ stage = "sent"
    /\ req.route = "/"
    /\ req.auth = "expired"
    /\ req.body = "json"
    /\ res.status = 200

\* ------------------------------------------------------- Spec and FairSpec

BothStored == apiResponse # NullResponse /\ apiError # NullError

\* C5: callProtectedApi with accessToken null sets apiError to "No access
\* token available", issues no request, and leaves isLoading and apiResponse
\* as they were.
C5_NoTokenNoRequest ==
    [][(callProtectedApi /\ accessToken = NullToken) =>
          /\ apiError' = "No access token available"
          /\ pending' = pending
          /\ isLoading' = isLoading
          /\ apiResponse' = apiResponse]_vars

\* The error is shown next to a response stored by an earlier call.
C5_Witness ==
    /\ accessToken = NullToken
    /\ apiError = "No access token available"
    /\ apiResponse = Envelope("public")
    /\ ~isLoading
    /\ NoneInFlight

\* C6: with no call in flight isLoading is false; the continuation of every
\* settled request leaves isLoading false, whatever the outcome; and once
\* set, isLoading is eventually cleared.
C6_LoadingCleared ==
    /\ [](NoneInFlight => ~isLoading)
    /\ [][\A c \in Calls : Resume(c) => ~isLoading']_vars
    /\ (isLoading ~> ~isLoading)

\* An exception thrown while storing the result, and the flag cleared.
C6_Witness ==
    /\ apiError = "store failed"
    /\ ~isLoading
    /\ NoneInFlight

\* A step of call c: its invocation or the continuation of its request.
StepOf(c) ==
    IF c = "public" THEN callPublicApi \/ Resume("public")
    ELSE callProtectedApi \/ Resume("protected")

\* C7: while a request of call d is pending, no step of the other call c
\* clears isLoading, and none clears or overwrites a result d has stored.
C7_NoCrossInterference ==
    [][\A c \in Calls : \A d \in Calls \ {c} :
          (StepOf(c) /\ pending[d] > 0) =>
              /\ isLoading => isLoading'
              /\ apiResponse = Envelope(d) => apiResponse' = apiResponse]_vars

\* C9: a rejected getAccessTokenSilently() is handled, and an authenticated
\* session whose silent retrieval failed leads to a login redirect.
C9_FallbackToLogin ==
    /\ [](silent = "rejected" => ~unhandled)
    /\ ((isAuthenticated /\ silent = "rejected") ~> loginStarted)

\* C10 as stated: apiResponse and apiError are never both non-null.
C10_NeverBoth == ~BothStored

\* C10 amended: when the two operations run as the click handlers of the
\* rendered buttons, apiResponse and apiError are never both non-null.
C10_ButtonsNeverBoth == driver = "buttons" => ~BothStored

\* Through the buttons: a protected call answered with an error.
C10_Witness ==
    /\ driver = "buttons"
    /\ accessToken # NullToken
    /\ apiError = "The provided token is invalid"
    /\ ~isLoading

\* ------------------------------------------------------------- DecodeSpec

DotCount(s) == Cardinality({i \in 1..Len(s) : s[i] = Dot})
DotAt(s, k) ==
    CHOOSE i \in 1..Len(s) :
        s[i] = Dot /\ Cardinality({j \in 1..i : s[j] = Dot}) = k
HeaderText(s) == SubSeq(s, 1, DotAt(s, 1) - 1)
PayloadText(s) == SubSeq(s, DotAt(s, 1) + 1, DotAt(s, 2) - 1)
SignatureText(s) == SubSeq(s, DotAt(s, 2) + 1, Len(s))
Decodes(seg) == Atob(seg).ok /\ JsonParse(Atob(seg).value).ok
Parsed(seg) == JsonParse(Atob(seg).value).value

\* C8: decodeJWT never throws; it returns null for every string that does
\* not hold exactly two "." and for every three-segment string whose header
\* or payload does not decode; when it returns a record, the string has
\* three segments, header and payload are the decoded first and second
\* segment, and signature is the third segment unchanged.
C8_DecodeTotal ==
    output # NotRun =>
        /\ output.kind = "return"
        /\ DotCount(input) # 2 => output.isNull
        /\ (DotCount(input) = 2 /\
              (~Decodes(HeaderText(input)) \/ ~Decodes(PayloadText(input))))
             => output.isNull
        /\ ~output.isNull =>
              /\ DotCount(input) = 2
              /\ Decodes(HeaderText(input))
              /\ Decodes(PayloadText(input))
              /\ output.header = Parsed(HeaderText(input))
              /\ output.payload = Parsed(PayloadText(input))
              /\ output.signature = SignatureText(input)

\* Four segments whose first two decode: null, not a record.
C8_Witness ==
    /\ input = <<"eyB9", Dot, "WzFd", Dot, Dot>>
    /\ output = ReturnNull

=============================================================================
